---------------------------- MODULE Spec2Model ----------------------------
(***************************************************************************)
(* Model of fodselsnummer.py: validation (validate_fnr, check_fnr) and     *)
(* generation (generate_fnr_for_day, _generate_control_digits) of          *)
(* Norwegian national identity numbers.                                    *)
(*                                                                         *)
(* Strings are sequences of characters.  A character is a number:          *)
(*   0..9    the ASCII digits '0'..'9'                                     *)
(*   10..19  a non-ASCII decimal digit (Unicode category Nd, such as the   *)
(*           Arabic-Indic digits), of digit value c - 10                   *)
(*   20      a character that is no digit (such as 'x')                    *)
(* Dates are triples <<year, month, day>>.                                 *)
(***************************************************************************)
EXTENDS Integers, Sequences, FiniteSets, TLC

VARIABLES
    today,        \* what date.today() returns
    calledon,     \* what date.today() returned during the last call
    ticks,        \* days elapsed since the start of the run
    op,           \* the operation that ran last
    fnr,          \* the string handed to validate_fnr / check_fnr
    d_numbers,    \* the d_numbers argument of the last call
    h_numbers,    \* the h_numbers argument of the last call
    outcome,      \* what the last call returned or raised, and what it logged
    day,          \* the date handed to generate_fnr_for_day
    thisdaysfnr,  \* the list generate_fnr_for_day returned
    numbersofar   \* the prefix handed to _generate_control_digits

vars == <<today, calledon, ticks, op, fnr, d_numbers, h_numbers, outcome,
          day, thisdaysfnr, numbersofar>>

---------------------------------------------------------------------------
(* Bounds of the model *)

\* how many days the current date may advance during a run
MaxTicks == 1

---------------------------------------------------------------------------
(* Characters, str() and int() *)

Chars == 0..20

\* what the regex class \d matches on a Python 3 str: any Unicode decimal digit
IsDigitChar(c) == c \in 0..19

IsAsciiDigit(c) == c \in 0..9

\* a character that \d does not match
NonDigit == CHOOSE c \in Chars : ~IsDigitChar(c)

\* int() of one decimal digit character
DigitValue(c) == c % 10

RECURSIVE int(_)
\* int(s) of a string of decimal digits
int(s) ==
    IF Len(s) = 0 THEN 0
    ELSE 10 * int(SubSeq(s, 1, Len(s) - 1)) + DigitValue(s[Len(s)])

\* Python's s[a:b] for 0 <= a <= b
Slice(s, a, b) == SubSeq(s, a + 1, IF b < Len(s) THEN b ELSE Len(s))

\* str(k) for 0 <= k <= 9
str(k) == <<k>>

\* str(x).zfill(3) for 0 <= x <= 999
zfill3(x) == <<x \div 100, (x \div 10) % 10, x % 10>>

\* FNR_REGEX.match(fnr): re.match anchors the pattern \d{11} at the start of
\* the string only
FNR_REGEX_match(s) ==
    /\ Len(s) >= 11
    /\ \A i \in 1..11 : IsDigitChar(s[i])

---------------------------------------------------------------------------
(* datetime.date *)

IsLeap(y) == (y % 4 = 0 /\ y % 100 # 0) \/ y % 400 = 0

DaysInMonth(y, m) ==
    IF m \in {4, 6, 9, 11} THEN 30
    ELSE IF m = 2 THEN (IF IsLeap(y) THEN 29 ELSE 28)
    ELSE 31

\* date(year, month, day) raises ValueError unless this holds
date_ok(y, m, d) ==
    /\ y \in 1..9999
    /\ m \in 1..12
    /\ d \in 1..DaysInMonth(y, m)

\* a > b on dates
DateGT(a, b) ==
    \/ a[1] > b[1]
    \/ a[1] = b[1] /\ a[2] > b[2]
    \/ a[1] = b[1] /\ a[2] = b[2] /\ a[3] > b[3]

\* d + timedelta(days=1)
NextDay(d) ==
    IF d[3] < DaysInMonth(d[1], d[2]) THEN <<d[1], d[2], d[3] + 1>>
    ELSE IF d[2] < 12 THEN <<d[1], d[2] + 1, 1>>
    ELSE <<d[1] + 1, 1, 1>>

\* d.strftime('%d%m%y')
strftime_dmy(d) ==
    <<d[3] \div 10, d[3] % 10, d[2] \div 10, d[2] % 10,
      (d[1] % 100) \div 10, d[1] % 10>>

---------------------------------------------------------------------------
(* What a call returns or raises *)

NoException == "none"

Return(v) ==
    [raised |-> NoException, msg |-> "", args |-> <<>>, value |-> v,
     logged |-> <<>>]

Raise(exc, message, arguments) ==
    [raised |-> exc, msg |-> message, args |-> arguments, value |-> <<>>,
     logged |-> <<>>]

---------------------------------------------------------------------------
(* _generate_control_digits *)

staticnumbers1 == <<3, 7, 6, 1, 8, 9, 4, 5, 2, 1>>

\* faulty variant: the second weight vector shifted by one place
staticnumbers2_shifted == <<4, 3, 2, 7, 6, 5, 4, 3, 2, 1, 1>>

staticnumbers2 == <<5, 4, 3, 2, 7, 6, 5, 4, 3, 2, 1>>

RECURSIVE WeightedSum(_, _, _)
\* the loop  for x in range(0, n): sum += int(numbers[x]) * weights[x]
WeightedSum(numbers, weights, n) ==
    IF n = 0 THEN 0
    ELSE WeightedSum(numbers, weights, n - 1)
             + DigitValue(numbers[n]) * weights[n]

\* lines 169-176 and 181-188: one control digit from a weighted sum
ControlDigit(sum) ==
    LET rest == sum % 11
    IN  IF rest = 0 THEN Return(0)
        ELSE IF 11 - rest # 10 THEN Return(11 - rest)
        ELSE Raise("InvalidControlDigitException", "", <<>>)

_generate_control_digits(numbers) ==
    LET control1 == ControlDigit(WeightedSum(numbers, staticnumbers1, 9))
        with1    == numbers \o str(control1.value)
        control2 == ControlDigit(WeightedSum(with1, staticnumbers2, 10))
    IN  IF control1.raised # NoException THEN control1
        ELSE IF control2.raised # NoException THEN control2
        ELSE Return(with1 \o str(control2.value))

---------------------------------------------------------------------------
(* validate_fnr and check_fnr *)

MsgRegex == "Fødselsnumber does not match regex \\d{11}"

MsgDNumber == "Fødselsnumber is a D-number (or day out of range)"

MsgDay == "Day out of range in fødselsnumber"

MsgHNumber == "Fødselsnumber is a H-number (or month out of range)"

MsgMonth == "Month out of range in fødselsnumber"

MsgFuture == "Date of fødselsnumber is larger than current date"

\* the f-string '{year}-{month}-{day} is not a valid date'; the three
\* numbers are the arguments of the message
MsgNotValidDate == "{year}-{month}-{day} is not a valid date"

MsgControl == "Control digit does not match fødselsnumber"

\* what date(year, month, day) raises for an impossible date
MsgDateConstructor == "day is out of range for month"

\* faulty variant: the roll-back of the century for years after 2040 only
Century_gt(individual_number, yy) ==
    LET year1 == IF individual_number <= 499 THEN yy + 1900 ELSE yy + 2000
    IN  IF individual_number >= 900 /\ year1 > 2040 THEN year1 - 100
        ELSE year1

\* lines 47-52: the full year from the two-digit year and the individual number
Century(individual_number, yy) ==
    LET year1 == IF individual_number <= 499 THEN yy + 1900 ELSE yy + 2000
    IN  IF individual_number >= 900 /\ year1 >= 2040 THEN year1 - 100
        ELSE year1

\* faulty variant: the D-number range one short
IsDNumber_to70(day0) == 41 <= day0 /\ day0 <= 70

\* line 33: the day field of a D-number
IsDNumber(day0) == 41 <= day0 /\ day0 <= 71

\* line 40: the month field of an H-number
IsHNumber(month0) == 41 <= month0 /\ month0 <= 52

\* faulty variant: a date of birth equal to the current date raises too
TryDate_ge(year, month, dayv, now) ==
    IF ~date_ok(year, month, dayv)
    THEN Raise("ValueError", MsgDateConstructor, <<>>)
    ELSE IF ~DateGT(now, <<year, month, dayv>>)
    THEN Raise("ValueError", MsgFuture, <<>>)
    ELSE Return(<<year, month, dayv>>)

\* lines 54-57, the body of the try: build dob and compare it with today
TryDate(year, month, dayv, now) ==
    IF ~date_ok(year, month, dayv)
    THEN Raise("ValueError", MsgDateConstructor, <<>>)
    ELSE IF DateGT(<<year, month, dayv>>, now)
    THEN Raise("ValueError", MsgFuture, <<>>)
    ELSE Return(<<year, month, dayv>>)

\* faulty variant: InvalidControlDigitException is not caught
CheckControl_uncaught(s) ==
    LET generatedfnr == _generate_control_digits(Slice(s, 0, 9))
    IN  IF generatedfnr.raised = "InvalidControlDigitException"
        THEN generatedfnr
        ELSE IF ~(s = generatedfnr.value)
        THEN Raise("ValueError", MsgControl, <<>>)
        ELSE Return(TRUE)

\* faulty variant: only the first ten characters are compared
CheckControl_first10(s) ==
    LET generatedfnr == _generate_control_digits(Slice(s, 0, 9))
    IN  IF generatedfnr.raised = "InvalidControlDigitException"
        THEN Raise("ValueError", MsgControl, <<>>)
        ELSE IF ~(Slice(s, 0, 10) = Slice(generatedfnr.value, 0, 10))
        THEN Raise("ValueError", MsgControl, <<>>)
        ELSE Return(TRUE)

\* lines 61-68: recompute the control digits and compare
CheckControl(s) ==
    LET generatedfnr == _generate_control_digits(Slice(s, 0, 9))
    IN  IF generatedfnr.raised = "InvalidControlDigitException"
        THEN Raise("ValueError", MsgControl, <<>>)
        ELSE IF ~(s = generatedfnr.value)
        THEN Raise("ValueError", MsgControl, <<>>)
        ELSE Return(TRUE)

\* a result of validate_fnr together with its local variables where it left:
\* day, month, year, and dob (<<>> stands for None and for a local that was
\* never assigned)
Exit(r, dayv, monthv, yearv, dobv) ==
    [raised |-> r.raised, msg |-> r.msg, args |-> r.args, value |-> r.value,
     logged |-> <<>>, day |-> dayv, month |-> monthv, year |-> yearv, dob |-> dobv]

\* validate_fnr(fnr, d_numbers, h_numbers) called when date.today() is now
validate_fnr(s, dnum, hnum, now) ==
    IF ~FNR_REGEX_match(s)
    THEN Exit(Raise("ValueError", MsgRegex, <<>>), <<>>, <<>>, <<>>, <<>>)
    ELSE
    LET individual_number == int(Slice(s, 6, 9))
        day0   == int(Slice(s, 0, 2))
        month0 == int(Slice(s, 2, 4))
        year0  == int(Slice(s, 4, 6))
        isD    == IsDNumber(day0)
        day1   == IF isD THEN day0 - 40 ELSE day0
        isH    == IsHNumber(month0)
        month1 == IF isH THEN month0 - 40 ELSE month0
        year1  == Century(individual_number, year0)
        dob1   == IF date_ok(year1, month1, day1)
                  THEN <<year1, month1, day1>> ELSE <<>>
        try    == TryDate(year1, month1, day1, now)
    IN  IF isD /\ ~dnum
        THEN Exit(Raise("ValueError", MsgDNumber, <<>>),
                  day0, month0, year0, <<>>)
        ELSE IF ~(1 <= day1 /\ day1 <= 31)
        THEN Exit(Raise("ValueError", MsgDay, <<>>),
                  day1, month0, year0, <<>>)
        ELSE IF isH /\ ~hnum
        THEN Exit(Raise("ValueError", MsgHNumber, <<>>),
                  day1, month0, year0, <<>>)
        ELSE IF ~(1 <= month1 /\ month1 <= 12)
        THEN Exit(Raise("ValueError", MsgMonth, <<>>),
                  day1, month1, year0, <<>>)
        ELSE IF try.raised = "ValueError"
        THEN \* lines 58-59: except ValueError catches both raises of the try
             Exit(Raise("ValueError", MsgNotValidDate, <<year1, month1, day1>>),
                  day1, month1, year1, dob1)
        ELSE Exit(CheckControl(s), day1, month1, year1, dob1)

\* check_fnr(fnr, d_numbers, h_numbers, logger): what it returns (or the
\* exception that escapes it) and the calls it made of logger
check_fnr(s, dnum, hnum, now) ==
    LET r == validate_fnr(s, dnum, hnum, now)
    IN  IF r.raised = "ValueError"
        THEN [r EXCEPT !.raised = NoException, !.msg = "", !.args = <<>>,
                       !.value = FALSE,
                       !.logged = <<[msg |-> r.msg, args |-> r.args]>>]
        ELSE r

---------------------------------------------------------------------------
(* generate_fnr_for_day *)

\* line 122: str(int(datestring[0]) + 4) + datestring[1:]
dnr(datestring) == str(DigitValue(datestring[1]) + 4) \o Tail(datestring)

\* faulty variant: the D-number is appended whatever the flag
LoopBody_alwaysD(datestring, dnrdatestring, dnum, x) ==
    LET individualnr == zfill3(x)
        plain == _generate_control_digits(datestring \o individualnr)
        dvar  == _generate_control_digits(dnrdatestring \o individualnr)
    IN  (IF plain.raised = NoException THEN <<plain.value>> ELSE <<>>)
        \o (IF dvar.raised = NoException THEN <<dvar.value>> ELSE <<>>)

\* lines 137-145 and 150-158: one pass of the loop body, the strings it
\* appends for individual number x
LoopBody(datestring, dnrdatestring, dnum, x) ==
    LET individualnr == zfill3(x)
        plain == _generate_control_digits(datestring \o individualnr)
        dvar  == _generate_control_digits(dnrdatestring \o individualnr)
    IN  (IF plain.raised = NoException THEN <<plain.value>> ELSE <<>>)
        \o (IF dnum /\ dvar.raised = NoException THEN <<dvar.value>> ELSE <<>>)

RECURSIVE Loop(_, _, _, _, _)
\* for x in range(lo, hi + 1): the loop body, appending to the list in the
\* order of x (the range is split in halves to keep the evaluation shallow)
Loop(datestring, dnrdatestring, dnum, lo, hi) ==
    IF hi < lo THEN <<>>
    ELSE IF lo = hi THEN LoopBody(datestring, dnrdatestring, dnum, lo)
    ELSE LET mid == (lo + hi) \div 2
         IN  Loop(datestring, dnrdatestring, dnum, lo, mid)
                \o Loop(datestring, dnrdatestring, dnum, mid + 1, hi)

\* lines 127-134: the band of individual numbers of a year
individualmin(year) == IF 1900 <= year /\ year <= 1999 THEN 0 ELSE 500

individualmax(year) == IF 1900 <= year /\ year <= 1999 THEN 499 ELSE 999

\* faulty variant: the bonus round for every year of the 1900s
stupid1900s_all(year) == 1900 <= year /\ year <= 1999

\* lines 119 and 127-131: whether the year gets the bonus round 900-999
stupid1900s(year) ==
    /\ 1900 <= year /\ year <= 1999
    /\ 1940 <= year /\ year <= 1999

generate_fnr_for_day(dayv, dnum) ==
    LET datestring    == strftime_dmy(dayv)
        dnrdatestring == dnr(datestring)
    IN  Loop(datestring, dnrdatestring, dnum,
             individualmin(dayv[1]), individualmax(dayv[1]))
        \o (IF stupid1900s(dayv[1])
            THEN Loop(datestring, dnrdatestring, dnum, 900, 999)
            ELSE <<>>)

---------------------------------------------------------------------------
(* The inputs the runs draw from *)

DayFields == {0, 1, 29, 31, 32, 40, 41, 71, 72}

MonthFields == {0, 2, 12, 13, 41, 42, 52, 53}

YearFields == {0, 24, 39, 40, 99}

IndividualNumbers == {0, 499, 500, 899, 900, 999}

TwoDigits(n) == <<n \div 10, n % 10>>

\* the nine-digit prefixes built from the fields above
Prefixes ==
    { TwoDigits(d) \o TwoDigits(m) \o TwoDigits(y) \o zfill3(n) :
        d \in DayFields, m \in MonthFields, y \in YearFields,
        n \in IndividualNumbers }

\* a prefix with the control digits that belong to it (00 when it has none)
WithControl(p) ==
    LET g == _generate_control_digits(p)
    IN  IF g.raised = NoException THEN g.value ELSE p \o <<0, 0>>

\* s with the character at position i (from 1) replaced by c
Replace(s, i, c) == [s EXCEPT ![i] = c]

\* s with its last digit incremented modulo 10
FlipLast(s) == Replace(s, Len(s), (s[Len(s)] + 1) % 10)

\* eleven ASCII digits: with the right control digits, and with the last wrong
WellFormed == UNION { {WithControl(p), FlipLast(WithControl(p))} : p \in Prefixes }

\* a few identifiers that are valid on 2024-02-28: 1 Feb 1999, 29 Feb 2024 as
\* a D-number, 31 Dec 1940
Bases ==
    { WithControl(<<0, 1, 0, 2, 9, 9, 0, 0, 0>>),
      WithControl(<<6, 9, 0, 2, 2, 4, 5, 0, 0>>),
      WithControl(<<3, 1, 1, 2, 4, 0, 9, 0, 0>>) }

\* strings that are not eleven ASCII digits
Malformed ==
    {<<>>}
    \cup { SubSeq(b, 1, 10) : b \in Bases }
    \cup { b \o <<c>> : b \in Bases, c \in {0, NonDigit} }
    \cup { b \o <<0, 0>> : b \in Bases }
    \cup { Replace(b, i, NonDigit) : b \in Bases, i \in {1, 5, 9, 11} }
    \cup { Replace(b, i, b[i] + 10) : b \in Bases, i \in {1, 9, 11} }

Inputs == WellFormed \cup Malformed

TodayStarts == { <<2024, 2, 28>>, <<2039, 12, 31>> }

---------------------------------------------------------------------------
(* The validator: validate_fnr and check_fnr called on one input as the      *)
(* days pass                                                               *)

NoCall == [raised |-> NoException]

Init ==
    /\ today \in TodayStarts
    /\ calledon = <<>>
    /\ ticks = 0
    /\ op = "none"
    /\ fnr \in Inputs
    /\ d_numbers = TRUE
    /\ h_numbers = FALSE
    /\ outcome = NoCall
    /\ day = <<>>
    /\ thisdaysfnr = <<>>
    /\ numbersofar = <<>>

ValidateFnr(dnum, hnum) ==
    /\ op' = "validate_fnr"
    /\ d_numbers' = dnum
    /\ h_numbers' = hnum
    /\ outcome' = validate_fnr(fnr, dnum, hnum, today)
    /\ calledon' = today
    /\ UNCHANGED <<today, ticks, fnr, day, thisdaysfnr, numbersofar>>

CheckFnr(dnum, hnum) ==
    /\ op' = "check_fnr"
    /\ d_numbers' = dnum
    /\ h_numbers' = hnum
    /\ outcome' = check_fnr(fnr, dnum, hnum, today)
    /\ calledon' = today
    /\ UNCHANGED <<today, ticks, fnr, day, thisdaysfnr, numbersofar>>

\* midnight passes: date.today() moves to the next day
Tick ==
    /\ ticks < MaxTicks
    /\ ticks' = ticks + 1
    /\ today' = NextDay(today)
    /\ UNCHANGED <<calledon, op, fnr, d_numbers, h_numbers, outcome, day, thisdaysfnr,
                   numbersofar>>

Next ==
    \/ \E dnum \in BOOLEAN, hnum \in BOOLEAN : ValidateFnr(dnum, hnum)
    \/ \E dnum \in BOOLEAN, hnum \in BOOLEAN : CheckFnr(dnum, hnum)
    \/ Tick

Spec == Init /\ [][Next]_vars

---------------------------------------------------------------------------
(* The generator: generate_fnr_for_day called for one day                  *)

GenDays ==
    { <<1899, 12, 31>>, <<1900, 1, 1>>, <<1939, 12, 31>>, <<1940, 1, 1>>,
      <<1999, 12, 31>>, <<2000, 2, 29>>, <<2024, 2, 28>>, <<2024, 2, 29>>,
      <<2039, 12, 31>>, <<2040, 1, 1>>, <<2040, 1, 2>> }

InitGen ==
    /\ today \in TodayStarts
    /\ calledon = <<>>
    /\ ticks = 0
    /\ op = "none"
    /\ fnr = <<>>
    /\ d_numbers \in BOOLEAN
    /\ h_numbers = FALSE
    /\ outcome = NoCall
    /\ day \in GenDays
    /\ thisdaysfnr = <<>>
    /\ numbersofar = <<>>

GenerateFnrForDay ==
    /\ op' = "generate_fnr_for_day"
    /\ thisdaysfnr' = generate_fnr_for_day(day, d_numbers)
    /\ UNCHANGED <<today, calledon, ticks, fnr, d_numbers, h_numbers, outcome, day,
                   numbersofar>>

NextGen == GenerateFnrForDay \/ Tick

SpecGen == InitGen /\ [][NextGen]_vars

---------------------------------------------------------------------------
(* The control digits: _generate_control_digits called on one prefix       *)

DigitSamples == {0, 1, 5, 9}

\* nine-digit prefixes over DigitSamples, together with the field prefixes
ControlPrefixes == [1..9 -> DigitSamples] \cup Prefixes

InitControl ==
    /\ today \in TodayStarts
    /\ calledon = <<>>
    /\ ticks = 0
    /\ op = "none"
    /\ fnr = <<>>
    /\ d_numbers = TRUE
    /\ h_numbers = FALSE
    /\ outcome = NoCall
    /\ day = <<>>
    /\ thisdaysfnr = <<>>
    /\ numbersofar \in ControlPrefixes

GenerateControlDigits ==
    /\ op' = "_generate_control_digits"
    /\ outcome' = _generate_control_digits(numbersofar)
    /\ UNCHANGED <<today, calledon, ticks, fnr, d_numbers, h_numbers, day, thisdaysfnr,
                   numbersofar>>

NextControl == GenerateControlDigits

SpecControl == InitControl /\ [][NextControl]_vars

---------------------------------------------------------------------------
(* Properties *)

Accepted(r) == r.raised = NoException /\ r.value = TRUE

Rejected(r) == r.raised = "ValueError"

\* exactly eleven characters, each matched by \d
ElevenDigits(s) == Len(s) = 11 /\ \A i \in 1..11 : IsDigitChar(s[i])

\* exactly eleven ASCII digits
ElevenAsciiDigits(s) == Len(s) = 11 /\ \A i \in 1..11 : IsAsciiDigit(s[i])

\* validate_fnr got past the range checks of day and month (line 47 ran)
ReachedCentury(r) ==
    r.msg \notin {MsgRegex, MsgDNumber, MsgDay, MsgHNumber, MsgMonth}

\* C8: after _generate_control_digits(p) on a nine-digit prefix p, with
\* rest1 the sum of p[i] * [3,7,6,1,8,9,4,5,2][i] modulo 11, c1 = 0 when
\* rest1 = 0 and 11 - rest1 otherwise, rest2 the sum over the ten digits of
\* p and c1 with weights [5,4,3,2,7,6,5,4,3,2] modulo 11 and c2 likewise: the
\* call raises InvalidControlDigitException exactly when rest1 = 1 or
\* rest2 = 1, and otherwise returns the eleven digits p, c1, c2 with c1 and
\* c2 in 0..9.
ControlDigitsComputed ==
    op = "_generate_control_digits" =>
        LET q     == numbersofar
            rest1 == (3 * q[1] + 7 * q[2] + 6 * q[3] + 1 * q[4] + 8 * q[5]
                      + 9 * q[6] + 4 * q[7] + 5 * q[8] + 2 * q[9]) % 11
            c1    == IF rest1 = 0 THEN 0 ELSE 11 - rest1
            rest2 == (5 * q[1] + 4 * q[2] + 3 * q[3] + 2 * q[4] + 7 * q[5]
                      + 6 * q[6] + 5 * q[7] + 4 * q[8] + 3 * q[9]
                      + 2 * c1) % 11
            c2    == IF rest2 = 0 THEN 0 ELSE 11 - rest2
        IN  /\ outcome.raised \in {NoException, "InvalidControlDigitException"}
            /\ outcome.raised = "InvalidControlDigitException"
                   <=> (rest1 = 1 \/ rest2 = 1)
            /\ outcome.raised = NoException =>
                   /\ outcome.value = q \o <<c1, c2>>
                   /\ Len(outcome.value) = 11
                   /\ SubSeq(outcome.value, 1, 9) = q
                   /\ c1 \in 0..9 /\ c2 \in 0..9

\* a prefix whose first control digit exists and whose second would be 10
ControlDigitsWitness ==
    /\ op = "_generate_control_digits"
    /\ outcome.raised = "InvalidControlDigitException"
    /\ ControlDigit(WeightedSum(numbersofar, staticnumbers1, 9)).raised
           = NoException

\* C7: whenever validate_fnr resolves the century, the full year it decodes
\* from the two-digit year yy and the individual number n is 1900 + yy for
\* n <= 499, 2000 + yy for 500 <= n <= 899, and for n >= 900 it is 2000 + yy
\* when yy <= 39 and 1900 + yy when yy >= 40.
CenturyResolution ==
    (op = "validate_fnr" /\ ReachedCentury(outcome)) =>
        LET yy == 10 * DigitValue(fnr[5]) + DigitValue(fnr[6])
            n  == 100 * DigitValue(fnr[7]) + 10 * DigitValue(fnr[8])
                      + DigitValue(fnr[9])
        IN  /\ n <= 499 => outcome.year = 1900 + yy
            /\ (500 <= n /\ n <= 899) => outcome.year = 2000 + yy
            /\ (900 <= n /\ yy <= 39) => outcome.year = 2000 + yy
            /\ (900 <= n /\ yy >= 40) => outcome.year = 1900 + yy
            /\ (n = 900 /\ yy = 39) => outcome.year = 2039
            /\ (n = 900 /\ yy = 40) => outcome.year = 1940

\* individual number 900 with year 40, accepted as a birth in 1940
CenturyWitness ==
    /\ op = "validate_fnr"
    /\ Accepted(outcome)
    /\ SubSeq(fnr, 5, 9) = <<4, 0, 9, 0, 0>>
    /\ outcome.year = 1940

\* C5: after check_fnr, under each of the four flag combinations, no
\* exception has escaped; it returned True exactly when validate_fnr with the
\* same arguments returns True; when validate_fnr rejects it returned False
\* and called the logger once with validate_fnr's reason, and when
\* validate_fnr accepts it did not call the logger.
CheckAgreesWithValidate ==
    op = "check_fnr" =>
        LET v == validate_fnr(fnr, d_numbers, h_numbers, calledon)
        IN  /\ outcome.raised = NoException
            /\ outcome.value \in BOOLEAN
            /\ outcome.value = TRUE <=> Accepted(v)
            /\ ~Accepted(v) =>
                   /\ outcome.value = FALSE
                   /\ outcome.logged = <<[msg |-> v.msg, args |-> v.args]>>
            /\ Accepted(v) => outcome.logged = <<>>

\* check_fnr returned False for a prefix that has no control digits, with
\* H-numbers allowed, and logged the reason
CheckWitness ==
    /\ op = "check_fnr"
    /\ h_numbers /\ ~d_numbers
    /\ outcome.value = FALSE
    /\ Len(outcome.logged) = 1
    /\ outcome.logged[1].msg = MsgControl
    /\ _generate_control_digits(Slice(fnr, 0, 9)).raised # NoException

\* C4: validate_fnr rejects every string that is not exactly eleven digit
\* characters with the malformed-input reason, before any other rule.
MalformedRejectedFirst ==
    (op = "validate_fnr" /\ ~ElevenDigits(fnr)) =>
        /\ Rejected(outcome)
        /\ outcome.msg = MsgRegex

\* C3: an identifier whose fields are in range, whose control digits match
\* and whose decoded date is a real date after the current date is rejected
\* with the future-date reason, not with the reason of an impossible date.
FutureDateReason ==
    ( /\ op = "validate_fnr"
      /\ ElevenAsciiDigits(fnr)
      /\ ReachedCentury(outcome)
      /\ outcome.dob # <<>>
      /\ DateGT(outcome.dob, calledon)
      /\ CheckControl(fnr).raised = NoException ) =>
        /\ Rejected(outcome)
        /\ outcome.msg = MsgFuture
        /\ outcome.msg # MsgNotValidDate

\* rejected for no other reason than a decoded date after the current date
RejectedOnlyAsFuture(r, s, now) ==
    /\ Rejected(r)
    /\ r.msg = MsgNotValidDate
    /\ r.dob # <<>>
    /\ DateGT(r.dob, now)
    /\ CheckControl(s).raised = NoException

\* C9: when validate_fnr is called again on the same input with the same
\* flags on the same or a later day: an accepted input is accepted again; an
\* input rejected only because its decoded date was after the current date
\* is accepted as soon as the current date has reached that date (the date
\* itself included) and rejected until then; an input rejected for any other
\* reason is rejected again.
MonotoneInCurrentDate ==
    [][ ( /\ op = "validate_fnr" /\ op' = "validate_fnr"
          /\ fnr' = fnr /\ d_numbers' = d_numbers /\ h_numbers' = h_numbers ) =>
            /\ ~DateGT(calledon, calledon')
            /\ Accepted(outcome) => Accepted(outcome')
            /\ RejectedOnlyAsFuture(outcome, fnr, calledon) =>
                   (Accepted(outcome') <=> ~DateGT(outcome.dob, calledon'))
            /\ (Rejected(outcome)
                    /\ ~RejectedOnlyAsFuture(outcome, fnr, calledon)) =>
                   Rejected(outcome')
      ]_vars

\* an input accepted on the very day it decodes to, after midnight passed:
\* the day before it was a future date
MonotoneWitness ==
    /\ op = "validate_fnr"
    /\ ticks >= 1
    /\ Accepted(outcome)
    /\ outcome.dob = calledon
    /\ calledon = today

\* the identifier made from a plain one by adding 40 to the day field (line
\* 122) and computing the control digits again
DVariant(s) == _generate_control_digits(dnr(Slice(s, 0, 6)) \o Slice(s, 6, 9))

\* C6: for an identifier accepted as a plain number, if the D-variant has
\* control digits, validate_fnr rejects the D-variant with d_numbers=False
\* for the D-number reason, and accepts it with d_numbers=True, decoding the
\* same day, month and year.
DNumberRoundTrip ==
    ( /\ op = "validate_fnr"
      /\ Accepted(outcome)
      /\ ~IsDNumber(int(Slice(fnr, 0, 2)))
      /\ DVariant(fnr).raised = NoException ) =>
        LET x   == DVariant(fnr).value
            off == validate_fnr(x, FALSE, h_numbers, calledon)
            on  == validate_fnr(x, TRUE, h_numbers, calledon)
        IN  /\ int(Slice(x, 0, 2)) = int(Slice(fnr, 0, 2)) + 40
            /\ Rejected(off)
            /\ off.msg = MsgDNumber
            /\ Accepted(on)
            /\ on.day = outcome.day
            /\ on.month = outcome.month
            /\ on.year = outcome.year
            /\ on.dob = outcome.dob

\* a plain identifier for the 31st accepted with D-numbers switched off, whose
\* D-variant (day field 71) has control digits
DNumberWitness ==
    /\ op = "validate_fnr"
    /\ Accepted(outcome)
    /\ ~d_numbers
    /\ SubSeq(fnr, 1, 2) = <<3, 1>>
    /\ DVariant(fnr).raised = NoException

\* C10: when validate_fnr accepts eleven ASCII digits, it accepts no string
\* that differs from them in exactly one digit, under the same flags and
\* date; it accepts no other pair of control digits for the same prefix; and
\* no prefix that differs in exactly one digit and has control digits has the
\* same first control digit.
SingleDigitErrorDetected ==
    (op = "validate_fnr" /\ Accepted(outcome) /\ ElevenAsciiDigits(fnr)) =>
        /\ \A i \in 1..11 : \A c \in (0..9) \ {fnr[i]} :
               ~Accepted(validate_fnr(Replace(fnr, i, c), d_numbers,
                                      h_numbers, calledon))
        /\ \A c1 \in 0..9 : \A c2 \in 0..9 :
               Accepted(validate_fnr(Slice(fnr, 0, 9) \o <<c1, c2>>,
                                     d_numbers, h_numbers, calledon))
                   => <<c1, c2>> = Slice(fnr, 9, 11)
        /\ \A i \in 1..9 : \A c \in (0..9) \ {fnr[i]} :
               LET g == _generate_control_digits(
                            Replace(Slice(fnr, 0, 9), i, c))
               IN  g.raised = NoException => g.value[10] # fnr[10]

\* an accepted H-number
SingleDigitWitness ==
    /\ op = "validate_fnr"
    /\ Accepted(outcome)
    /\ ElevenAsciiDigits(fnr)
    /\ h_numbers
    /\ IsHNumber(int(Slice(fnr, 2, 4)))

\* the strings of a list
Range(list) == { list[i] : i \in 1..Len(list) }

\* the eleven-digit strings that can stand for the date d at all: the day
\* field plain or plus 40, the month field plain or plus 40, the year suffix
\* of d, every individual number, and the control digits right or wrong
Candidates(d) ==
    UNION { {WithControl(q), FlipLast(WithControl(q))} :
            q \in { TwoDigits(dd) \o TwoDigits(mm) \o TwoDigits(d[1] % 100)
                        \o zfill3(n) :
                    dd \in {d[3], d[3] + 40}, mm \in {d[2], d[2] + 40},
                    n \in 0..999 } }

\* validate_fnr accepts x on the current date and decodes the date d from it
DecodesTo(x, dnum, d) ==
    LET r == validate_fnr(x, dnum, FALSE, today)
    IN  /\ Accepted(r)
        /\ r.dob = d
        /\ <<r.year, r.month, r.day>> = d

\* the years whose dates the identifier can encode under the century rule of
\* validate_fnr, on a day that has come
Encodable(d) ==
    /\ 1900 <= d[1] /\ d[1] <= 2039
    /\ ~DateGT(d, today)

\* C1 as stated: for every date d, every string of
\* generate_fnr_for_day(d, True) passes check_fnr(s, True, False) and decodes
\* to d.
RoundTripAnyDate ==
    (op = "generate_fnr_for_day" /\ d_numbers) =>
        \A i \in 1..Len(thisdaysfnr) :
            /\ Accepted(check_fnr(thisdaysfnr[i], TRUE, FALSE, today))
            /\ DecodesTo(thisdaysfnr[i], TRUE, day)

\* C1 amended: for every date d of the years 1900 to 2039 that is not after
\* the current date, every string of generate_fnr_for_day(d, True) passes
\* check_fnr(s, True, False) and decodes to d.
RoundTrip ==
    (op = "generate_fnr_for_day" /\ d_numbers /\ Encodable(day)) =>
        \A i \in 1..Len(thisdaysfnr) :
            /\ Accepted(check_fnr(thisdaysfnr[i], TRUE, FALSE, today))
            /\ DecodesTo(thisdaysfnr[i], TRUE, day)

\* a day of 1940-1999 generated with D-numbers: the list holds a D-number of
\* the bonus round 900-999
RoundTripWitness ==
    /\ op = "generate_fnr_for_day"
    /\ d_numbers
    /\ Encodable(day)
    /\ stupid1900s(day[1])
    /\ \E i \in 1..Len(thisdaysfnr) :
           thisdaysfnr[i][1] >= 4 /\ thisdaysfnr[i][7] = 9

\* C2 as stated: for every date d and flag, the strings of
\* generate_fnr_for_day(d, flag) are exactly the eleven-digit strings that
\* validate_fnr(x, d_numbers=flag, h_numbers=False) accepts with date d.
CompleteAnyDate ==
    op = "generate_fnr_for_day" =>
        Range(thisdaysfnr)
            = { x \in Candidates(day) : DecodesTo(x, d_numbers, day) }

\* C2 amended: for every date d of the years 1900 to 2039 that is not after
\* the current date and every flag, the strings of
\* generate_fnr_for_day(d, flag) are exactly the eleven-digit strings that
\* validate_fnr(x, d_numbers=flag, h_numbers=False) accepts with date d.
Complete ==
    (op = "generate_fnr_for_day" /\ Encodable(day)) =>
        Range(thisdaysfnr)
            = { x \in Candidates(day) : DecodesTo(x, d_numbers, day) }

\* a day of 2000-2039 generated without D-numbers: the list is not empty and
\* reaches into the band 900-999
CompleteWitness ==
    /\ op = "generate_fnr_for_day"
    /\ ~d_numbers
    /\ Encodable(day)
    /\ day[1] >= 2000
    /\ \E i \in 1..Len(thisdaysfnr) : thisdaysfnr[i][7] = 9

===========================================================================
